---- MODULE Spec2Model ----
(***************************************************************************)
(* A model of packages/deno-lint/src/lib.rs: the two exported operations   *)
(* lint (one in-memory buffer) and denolint (directory scan), and the two  *)
(* helpers get_media_type and make_absolute.                               *)
(*                                                                         *)
(* Paths and other strings are sequences of one-character strings, so the  *)
(* string operations of the code (extension, join, prefix test) are        *)
(* computed and not assumed.  Option values are sequences of length <= 1.  *)
(*                                                                         *)
(* In denolint the block opened by "if !cfg_ignore_files.is_empty()" on    *)
(* line 186 is read as ending after line 198, as its indentation shows;    *)
(* the three "let mut dir_walker" of lines 168, 174 and 181 shadow one     *)
(* another, so the walker in use is the one of line 181.  The type filter  *)
(* of lines 135 to 149 is built from fixed, well-formed globs and does not *)
(* fail.                                                                   *)
(***************************************************************************)
EXTENDS Integers, Sequences, FiniteSets, TLC

VARIABLES
  pc,         \* position of the running operation
  call,       \* the arguments of the operation and the environment it reads
  result,     \* what the operation returned (or how it ended)
  walker,     \* denolint: the configured dir_walker, and the rules of the run
  walked,     \* denolint: the entries the walker has yielded so far
  lints,      \* denolint: the files linted so far, with their diagnostics
  pending,    \* denolint: formatted lines of the current file not yet printed
  report,     \* denolint: the lines printed to stderr so far
  has_error   \* denolint: the has_error flag

vars == <<pc, call, result, walker, walked, lints, pending, report, has_error>>

(***************************************************************************)
(* Bounds of the model.                                                    *)
(***************************************************************************)
MaxPathLen == 5    \* characters of a path given to get_media_type
MaxRawLen  == 3    \* characters of a path given to make_absolute
MaxBufLen  == 3    \* bytes of a source buffer given to lint
MaxDirs    == 2    \* entries of scan_dirs, files.include and files.exclude
MaxEntries == 3    \* entries one directory walk yields
MaxDiags   == 2    \* diagnostics the engine reports for one file

(***************************************************************************)
(* Strings, options and results.                                           *)
(***************************************************************************)
None == <<>>

Some(x) == <<x>>

Range(s) == {s[i] : i \in 1..Len(s)}

SeqsUpTo(S, n) == UNION {[1..k -> S] : k \in 0..n}

Min(a, b) == IF a < b THEN a ELSE b

IsPrefix(s, t) == Len(s) <= Len(t) /\ SubSeq(t, 1, Len(s)) = s

Last(s) == s[Len(s)]

Idle == [kind |-> "none"]

(***************************************************************************)
(* std::path as the code uses it.                                          *)
(***************************************************************************)
RECURSIVE SplitRec(_, _, _)
SplitRec(s, cur, acc) ==
  IF s = <<>>
  THEN IF cur = <<>> THEN acc ELSE Append(acc, cur)
  ELSE IF Head(s) = "/"
       THEN SplitRec(Tail(s), <<>>, IF cur = <<>> THEN acc ELSE Append(acc, cur))
       ELSE SplitRec(Tail(s), Append(cur, Head(s)), acc)

\* The names between the separators of p, empty names dropped.
Split(p) == SplitRec(p, <<>>, <<>>)

is_absolute(p) == p # <<>> /\ Head(p) = "/"

Dot == <<".">>

DotDot == <<".", ".">>

\* Path::components without the root: a "." is kept only when it leads a
\* relative path.
Components(p) ==
  LET cs == Split(p)
      keep(i) == cs[i] # Dot \/ (i = 1 /\ ~is_absolute(p))
  IN  SelectSeq([i \in 1..Len(cs) |-> <<i, cs[i]>>], LAMBDA e : keep(e[1]))

\* Path::file_name: the last component when it is a normal name.
file_name(p) ==
  LET cs == Components(p)
  IN  IF cs = <<>> THEN None
      ELSE LET l == Last(cs)[2]
           IN  IF l = Dot \/ l = DotDot THEN None ELSE Some(l)

LastDot(f) ==
  LET ds == {i \in 1..Len(f) : f[i] = "."}
  IN  IF ds = {} THEN 0 ELSE CHOOSE i \in ds : \A j \in ds : j <= i

\* Path::extension: what follows the last "." of the file name, when the
\* file name has one that is not its first character.
extension(p) ==
  LET fn == file_name(p)
  IN  IF fn = None THEN None
      ELSE LET f == fn[1]
               d == LastDot(f)
           IN  IF d <= 1 THEN None ELSE Some(SubSeq(f, d + 1, Len(f)))

\* get_media_type without the mjs arm.
get_media_type_mjs_default(p) ==
  LET e == extension(p)
  IN  CASE e = Some(<<"t", "s", "x">>) -> "Tsx"
        [] e = Some(<<"j", "s", "x">>) -> "Jsx"
        [] e = Some(<<"j", "s">>) -> "JavaScript"
        [] e = Some(<<"t", "s">>) -> "TypeScript"
        [] OTHER -> "Tsx"

get_media_type(p) ==
  LET e == extension(p)
  IN  CASE e = Some(<<"t", "s", "x">>) -> "Tsx"
        [] e = Some(<<"j", "s", "x">>) -> "Jsx"
        [] e = Some(<<"j", "s">>) \/ e = Some(<<"m", "j", "s">>) -> "JavaScript"
        [] e = Some(<<"t", "s">>) -> "TypeScript"
        [] OTHER -> "Tsx"

(***************************************************************************)
(* get_media_type on its own: every path up to MaxPathLen characters.      *)
(***************************************************************************)
MediaChars == {"/", ".", "t", "s", "x", "j", "m"}

NoWalker == [roots |-> <<>>]

DenolintIdle ==
  /\ walker = NoWalker
  /\ walked = <<>>
  /\ lints = <<>>
  /\ pending = <<>>
  /\ report = <<>>
  /\ has_error = FALSE

InitMedia ==
  /\ pc = "call"
  /\ call \in {[fn |-> "get_media_type", p |-> p] : p \in SeqsUpTo(MediaChars, MaxPathLen)}
  /\ result = Idle
  /\ DenolintIdle

GetMediaType ==
  /\ pc = "call"
  /\ call.fn = "get_media_type"
  /\ result' = [kind |-> "ok", value |-> get_media_type(call.p)]
  /\ pc' = "done"
  /\ UNCHANGED <<call, walker, walked, lints, pending, report, has_error>>

NextMedia == GetMediaType

SpecMedia == InitMedia /\ [][NextMedia]_vars

\* The file name of p ends in "." followed by e, with something before the ".".
HasExt(p, e) ==
  /\ file_name(p) # None
  /\ LET f == file_name(p)[1]
     IN  /\ Len(f) > Len(e) + 1
         /\ SubSeq(f, Len(f) - Len(e) + 1, Len(f)) = e
         /\ f[Len(f) - Len(e)] = "."

\* C8: get_media_type maps extension tsx to Tsx, jsx to Jsx, js and mjs to
\* JavaScript, ts to TypeScript, and every other or missing extension to Tsx.
C8_MediaTypeMapping ==
  (pc = "done" /\ call.fn = "get_media_type") =>
    /\ result.kind = "ok"
    /\ result.value =
         IF HasExt(call.p, <<"j", "s", "x">>) THEN "Jsx"
         ELSE IF HasExt(call.p, <<"j", "s">>) \/ HasExt(call.p, <<"m", "j", "s">>)
              THEN "JavaScript"
         ELSE IF HasExt(call.p, <<"t", "s">>) THEN "TypeScript"
         ELSE "Tsx"

C8_Witness ==
  /\ pc = "done"
  /\ call.fn = "get_media_type"
  /\ call.p = <<"/", "m", ".", "j", "s">>
  /\ result.value = "JavaScript"

(***************************************************************************)
(* make_absolute and the filesystem calls it makes.                        *)
(***************************************************************************)
\* PathBuf::push: an absolute p replaces buf, a relative p is appended
\* after a separator.
Push(buf, p) ==
  IF is_absolute(p) THEN p
  ELSE (IF buf # <<>> /\ Last(buf) = "/" THEN buf ELSE buf \o <<"/">>) \o p

RECURSIVE Render(_)
Render(cs) == IF cs = <<>> THEN <<>> ELSE <<"/">> \o Head(cs) \o Render(Tail(cs))

\* An absolute path written from its names.
RenderAbs(cs) == IF cs = <<>> THEN <<"/">> ELSE Render(cs)

RECURSIVE Resolve(_, _, _)
\* Follows the names of rest from directory cur in the filesystem fs (the
\* set of existing absolute paths): None as soon as a name does not exist.
Resolve(cur, rest, fs) ==
  IF rest = <<>> THEN Some(RenderAbs(cur))
  ELSE LET c == Head(rest)
       IN  IF c = Dot THEN Resolve(cur, Tail(rest), fs)
           ELSE IF c = DotDot
                THEN Resolve(IF cur = <<>> THEN cur ELSE SubSeq(cur, 1, Len(cur) - 1),
                             Tail(rest), fs)
           ELSE IF RenderAbs(Append(cur, c)) \in fs
                THEN Resolve(Append(cur, c), Tail(rest), fs)
                ELSE None

\* The extended-length prefix Windows puts before a canonical path.
Verbatim == <<"\\", "\\", "?", "\\">>

\* fs::canonicalize of an absolute path in environment env.
canonicalize(buf, env) ==
  LET r == Resolve(<<>>, Split(buf), env.fs)
  IN  IF r = None THEN None
      ELSE IF env.windows THEN Some(Verbatim \o r[1]) ELSE r

make_absolute(raw, cwd, env) ==
  IF is_absolute(raw) THEN raw
  ELSE LET buf == Push(cwd, raw)
           c == canonicalize(buf, env)
       IN  IF c = None THEN raw
           ELSE IF IsPrefix(Verbatim, c[1]) /\ env.utf8
                THEN SubSeq(c[1], 5, Len(c[1]))
                ELSE c[1]

(***************************************************************************)
(* make_absolute on its own: every raw path up to MaxRawLen characters,    *)
(* against a working directory /w in several filesystems.                  *)
(***************************************************************************)
RawChars == {"/", ".", "a"}

Cwd == <<"/", "w">>

BaseFs == {<<"/">>, Cwd}

OptionalFs == {<<"/", "a">>, <<"/", "w", "/", "a">>, <<"/", "w", "/", "a", "/", "a">>}

Envs ==
  {[fs |-> BaseFs \cup S, windows |-> w, utf8 |-> u] :
     S \in SUBSET OptionalFs, w \in BOOLEAN, u \in BOOLEAN}

InitPath ==
  /\ pc = "call"
  /\ call \in {[fn |-> "make_absolute", raw |-> r, cwd |-> Cwd, env |-> e] :
                 r \in SeqsUpTo(RawChars, MaxRawLen), e \in Envs}
  /\ result = Idle
  /\ DenolintIdle

MakeAbsolute ==
  /\ pc = "call"
  /\ call.fn = "make_absolute"
  /\ result' = [kind |-> "ok", value |-> make_absolute(call.raw, call.cwd, call.env)]
  /\ pc' = "done"
  /\ UNCHANGED <<call, walker, walked, lints, pending, report, has_error>>

NextPath == MakeAbsolute

SpecPath == InitPath /\ [][NextPath]_vars

\* C6: make_absolute returns an absolute raw unchanged, and for a relative
\* raw whose canonicalization fails it returns the joined path cwd/raw,
\* which is absolute.
C6_FailSoftReturnsJoined ==
  (pc = "done" /\ call.fn = "make_absolute") =>
    /\ is_absolute(call.raw) => result.value = call.raw
    /\ (~is_absolute(call.raw)
          /\ canonicalize(Push(call.cwd, call.raw), call.env) = None) =>
         /\ result.value = Push(call.cwd, call.raw)
         /\ is_absolute(result.value)

\* What the code does hold to: an absolute raw is returned unchanged, a
\* relative raw that does not canonicalize is returned as it was given.
C6_FailSoftReturnsRaw ==
  (pc = "done" /\ call.fn = "make_absolute") =>
    /\ is_absolute(call.raw) => result.value = call.raw
    /\ (~is_absolute(call.raw)
          /\ canonicalize(Push(call.cwd, call.raw), call.env) = None) =>
         result.value = call.raw

(***************************************************************************)
(* The collaborators of lint and denolint: rule selection, UTF-8 decoding, *)
(* the lint engine and the diagnostics formatter.                          *)
(***************************************************************************)
\* The engine's rule catalogue, in the order it reports diagnostics.
RulePool == <<"no-empty", "no-var", "ban-types", "camelcase">>

get_all_rules == Range(RulePool)

get_recommended_rules == {"no-empty", "no-var", "ban-types"}

\* config::filter_rules: all or recommended rules, less the excluded names,
\* plus the included names.
filter_rules(all_rules, exclude_rules, include_rules) ==
  LET start == IF all_rules THEN get_all_rules ELSE get_recommended_rules
      less == IF exclude_rules = None THEN start ELSE start \ exclude_rules[1]
  IN  IF include_rules = None THEN less
      ELSE less \cup (include_rules[1] \cap get_all_rules)

unwrap_or(opt, d) == IF opt = None THEN d ELSE opt[1]

\* The length of the UTF-8 encoded character that starts at b[i], 0 when
\* no well-formed character starts there.
Utf8CharLen(b, i) ==
  LET n == Len(b)
      in(k, lo, hi) == k <= n /\ b[k] >= lo /\ b[k] <= hi
      cont(k) == in(k, 128, 191)
  IN  CASE b[i] < 128 -> 1
        [] in(i, 194, 223) -> IF cont(i + 1) THEN 2 ELSE 0
        [] b[i] = 224 -> IF in(i + 1, 160, 191) /\ cont(i + 2) THEN 3 ELSE 0
        [] in(i, 225, 236) \/ in(i, 238, 239) ->
             IF cont(i + 1) /\ cont(i + 2) THEN 3 ELSE 0
        [] b[i] = 237 -> IF in(i + 1, 128, 159) /\ cont(i + 2) THEN 3 ELSE 0
        [] b[i] = 240 ->
             IF in(i + 1, 144, 191) /\ cont(i + 2) /\ cont(i + 3) THEN 4 ELSE 0
        [] in(i, 241, 243) ->
             IF cont(i + 1) /\ cont(i + 2) /\ cont(i + 3) THEN 4 ELSE 0
        [] b[i] = 244 ->
             IF in(i + 1, 128, 143) /\ cont(i + 2) /\ cont(i + 3) THEN 4 ELSE 0
        [] OTHER -> 0

RECURSIVE ValidUpTo(_, _)
\* The number of leading bytes of b, from b[i] on, that are well-formed.
ValidUpTo(b, i) ==
  IF i > Len(b) THEN Len(b)
  ELSE LET l == Utf8CharLen(b, i)
       IN  IF l = 0 THEN i - 1 ELSE ValidUpTo(b, i + l)

\* str::from_utf8: the text, or the Utf8Error with the valid prefix length.
from_utf8(b) ==
  LET v == ValidUpTo(b, 1)
  IN  IF v = Len(b) THEN [ok |-> TRUE, text |-> b]
      ELSE [ok |-> FALSE, e |-> [valid_up_to |-> v]]

\* The diagnostics an engine run with these rules may report: the first
\* few of its rules, in catalogue order.
DiagSeqs(rules) ==
  LET rs == SelectSeq(RulePool, LAMBDA r : r \in rules)
  IN  {SubSeq(rs, 1, k) : k \in 0..Min(MaxDiags, Len(rs))}

\* Linter::lint: the engine fails, or reports diagnostics.
EngineOutcomes(rules) ==
  {[ok |-> FALSE, e |-> "engine error"]}
    \cup {[ok |-> TRUE, diags |-> d] : d \in DiagSeqs(rules)}

\* diagnostics::display_diagnostics: one line per diagnostic, in order, or
\* a rendering error.
display_diagnostics(diags, file, renders) ==
  IF renders
  THEN [ok |-> TRUE,
        lines |-> [i \in 1..Len(diags) |-> [file |-> file, rule |-> diags[i]]]]
  ELSE [ok |-> FALSE, e |-> "render error"]

Ok(v) == [kind |-> "ok", value |-> v]

\* napi::Error: a status and the formatted reason, kept as the format text
\* with the values it interpolates: the underlying cause and the path.
Error(status, text, cause, path) ==
  [kind |-> "err", status |-> status, text |-> text, cause |-> cause, path |-> path]

(***************************************************************************)
(* lint: one in-memory source.                                             *)
(***************************************************************************)
\* The error lint returns for a buffer that is not UTF-8.
LintDecodeError(file, e) ==
  Error("StringExpected", "Input source is not valid utf8 string {}", Some(e), None)

LintEngineError(file, e) ==
  Error("GenericFailure", "Lint failed: {}, at: {}", Some(e), Some(file))

\* The whole of lint for one engine outcome and one formatter outcome.
LintResult(c, engine, renders) ==
  LET source == IF c.source.tag = "A" THEN [ok |-> TRUE, text |-> c.source.bytes]
                ELSE from_utf8(c.source.bytes)
  IN  IF ~source.ok THEN LintDecodeError(c.file_name, source.e)
      ELSE IF ~engine.ok THEN LintEngineError(c.file_name, engine.e)
      ELSE LET d == display_diagnostics(engine.diags, c.file_name, renders)
           IN  IF d.ok THEN Ok(d.lines)
               ELSE Error("GenericFailure", "{}", Some(d.e), None)

LintRules(c) == filter_rules(unwrap_or(c.all_rules, FALSE), c.exclude_rules, c.include_rules)

Lint ==
  /\ pc = "call"
  /\ call.fn = "lint"
  /\ \E engine \in EngineOutcomes(LintRules(call)), renders \in BOOLEAN :
       result' = LintResult(call, engine, renders)
  /\ pc' = "done"
  /\ UNCHANGED <<call, walker, walked, lints, pending, report, has_error>>

SourceBytes == {65, 195, 169, 226, 130, 255}

LintFiles == {<<"a", ".", "t", "s">>, <<"b">>}

Sources ==
  {[tag |-> "B", bytes |-> b] : b \in SeqsUpTo(SourceBytes, MaxBufLen)}
    \cup {[tag |-> "A", bytes |-> b] :
            b \in {x \in SeqsUpTo(SourceBytes, MaxBufLen) : from_utf8(x).ok}}

InitLint ==
  /\ pc = "call"
  /\ call \in {[fn |-> "lint", file_name |-> f, source |-> s, all_rules |-> a,
                exclude_rules |-> x, include_rules |-> i] :
                 f \in LintFiles, s \in Sources,
                 a \in {None, Some(TRUE)},
                 x \in {None, Some({"no-empty"})},
                 i \in {None, Some({"camelcase"})}}
  /\ result = Idle
  /\ DenolintIdle

NextLint == Lint

SpecLint == InitLint /\ [][NextLint]_vars

IsDecodeError(r) == r.kind = "err" /\ r.status = "StringExpected"

\* C5: lint of a buffer that is not valid UTF-8 fails with a decode error
\* whose content names the file; lint of a string or of a valid UTF-8
\* buffer never fails with a decode error.
C5_DecodeErrorNamesFile ==
  (pc = "done" /\ call.fn = "lint") =>
    IF call.source.tag = "B" /\ ~from_utf8(call.source.bytes).ok
    THEN IsDecodeError(result) /\ result.path = Some(call.file_name)
    ELSE ~IsDecodeError(result)

\* What the code does hold to: the decode error is returned exactly for the
\* buffers that are not UTF-8, with the decoding detail.
C5_DecodeErrorIffInvalid ==
  (pc = "done" /\ call.fn = "lint") =>
    IF call.source.tag = "B" /\ ~from_utf8(call.source.bytes).ok
    THEN IsDecodeError(result)
           /\ result.cause = Some(from_utf8(call.source.bytes).e)
           /\ result.path = None
    ELSE ~IsDecodeError(result)

(***************************************************************************)
(* denolint: the configuration phase (lib.rs lines 109 to 207).            *)
(***************************************************************************)
DenolintIgnoreName ==
  <<".", "d", "e", "n", "o", "l", "i", "n", "t", "i", "g", "n", "o", "r", "e">>

EslintIgnoreName ==
  <<".", "e", "s", "l", "i", "n", "t", "i", "g", "n", "o", "r", "e">>

\* A panic!: the operation returns nothing; the message names a path.
Panic(text, path) ==
  [kind |-> "panic", status |-> "none", text |-> text, cause |-> None,
   path |-> Some(path)]

\* Path::to_str on a path under the working directory.
ConvertError(path) ==
  Error("GenericFailure", "Convert path to string failed: {:?}", None, Some(path))

\* ignore_file_path with the two ignore files tried in the other order.
ignore_file_path_eslint_first(c, cwd) ==
  LET denolint_ignore_file == Push(cwd, DenolintIgnoreName)
      eslint_ignore_file == Push(cwd, EslintIgnoreName)
  IN  IF c.env.eslintignore
      THEN IF c.env.cwd_utf8 THEN Ok(eslint_ignore_file)
           ELSE ConvertError(eslint_ignore_file)
      ELSE IF c.env.denolintignore
           THEN IF c.env.cwd_utf8 THEN Ok(denolint_ignore_file)
                ELSE ConvertError(denolint_ignore_file)
           ELSE Ok(c.dirname)

\* The ignore file the walker is given: .denolintignore of the working
\* directory if it opens, else .eslintignore if it opens, else __dirname.
ignore_file_path(c, cwd) ==
  LET denolint_ignore_file == Push(cwd, DenolintIgnoreName)
      eslint_ignore_file == Push(cwd, EslintIgnoreName)
  IN  IF c.env.denolintignore
      THEN IF c.env.cwd_utf8 THEN Ok(denolint_ignore_file)
           ELSE ConvertError(denolint_ignore_file)
      ELSE IF c.env.eslintignore
           THEN IF c.env.cwd_utf8 THEN Ok(eslint_ignore_file)
                ELSE ConvertError(eslint_ignore_file)
           ELSE Ok(c.dirname)

\* The paths the walker is built on and given: the walker kept is the one
\* built last, on scan_dirs[0] or else on the working directory; the
\* include entries after the first and the scan directories after the
\* first are added to it.
walk_roots(dirs, cfg_add_files, cwd, env) ==
  LET root == IF dirs = <<>> THEN cwd ELSE dirs[1]
  IN  <<root>>
        \o [i \in 1..(Len(cfg_add_files) - 1) |->
              make_absolute(cfg_add_files[i + 1], cwd, env)]
        \o (IF dirs = <<>> THEN <<>> ELSE Tail(dirs))

RECURSIVE ClassesClosed(_, _)
\* Every "[" of the glob g is closed by a later "]".
ClassesClosed(g, open) ==
  IF g = <<>> THEN ~open
  ELSE IF ~open /\ Head(g) = "[" THEN ClassesClosed(Tail(g), TRUE)
  ELSE IF open /\ Head(g) = "]" THEN ClassesClosed(Tail(g), FALSE)
  ELSE ClassesClosed(Tail(g), open)

\* OverrideBuilder::add: the glob is accepted or refused.
override_add(r) == ClassesClosed(r, FALSE)

\* The override globs of files.exclude: "!" before each entry.
override_globs(cfg_ignore_files) ==
  [i \in 1..Len(cfg_ignore_files) |-> <<"!">> \o cfg_ignore_files[i]]

\* The first entry of files.exclude whose override glob is refused.
first_refused(cfg_ignore_files) ==
  LET bad == {i \in 1..Len(cfg_ignore_files) :
                ~override_add(override_globs(cfg_ignore_files)[i])}
  IN  IF bad = {} THEN 0 ELSE CHOOSE i \in bad : \A j \in bad : i <= j

LoadError == Error("GenericFailure", "{}", Some("config error"), None)

CwdError ==
  Error("GenericFailure", "Get current_dir failed {}", Some("io error"), None)

\* build_walker leaving out the exclude entries that are refused.
refused_exclude_skipped(c, cwd, ignore, cfg) ==
  Ok([roots |-> walk_roots(unwrap_or(c.scan_dirs, <<>>), cfg.include, cwd, c.env),
      custom_ignore |-> ignore,
      types |-> {"typescript", "js"},
      follow_links |-> TRUE,
      overrides |-> SelectSeq(override_globs(cfg.exclude), override_add),
      ignores |-> cfg.exclude,
      rules |-> cfg.rules])

\* The walker for a loaded (or default) configuration, or the panic of a
\* refused files.exclude entry.
build_walker(c, cwd, ignore, cfg) ==
  LET refused == first_refused(cfg.exclude)
  IN  IF refused # 0
      THEN Panic("Adding excluded file {:?} failed", cfg.exclude[refused])
      ELSE Ok([roots |-> walk_roots(unwrap_or(c.scan_dirs, <<>>), cfg.include,
                                    cwd, c.env),
               custom_ignore |-> ignore,
               types |-> {"typescript", "js"},
               follow_links |-> TRUE,
               overrides |-> override_globs(cfg.exclude),
               ignores |-> cfg.exclude,
               rules |-> cfg.rules])

DefaultConfig == [rules |-> get_recommended_rules, exclude |-> <<>>, include |-> <<>>]

\* The whole configuration phase: the configured walker, or how it ended.
configure(c) ==
  IF c.env.cwd = None THEN CwdError
  ELSE IF c.env.config.state = "invalid" THEN LoadError
  ELSE LET cwd == c.env.cwd[1]
           cfg == IF c.env.config.state = "loaded"
                  THEN [rules |-> c.env.config.rules,
                        exclude |-> c.env.config.exclude,
                        include |-> c.env.config.include]
                  ELSE DefaultConfig
           ignore == ignore_file_path(c, cwd)
       IN  IF ignore.kind # "ok" THEN ignore
           ELSE build_walker(c, cwd, ignore.value, cfg)

Configure ==
  /\ pc = "call"
  /\ call.fn = "denolint"
  /\ LET r == configure(call)
     IN  IF r.kind = "ok"
         THEN /\ walker' = r.value
              /\ pc' = "walk"
              /\ UNCHANGED result
         ELSE /\ result' = r
              /\ pc' = "done"
              /\ UNCHANGED walker
  /\ UNCHANGED <<call, walked, lints, pending, report, has_error>>

(***************************************************************************)
(* denolint: the walk (lib.rs lines 208 to 243), one step of the loop body *)
(* per action.  What the filesystem and the engine do with an entry is     *)
(* drawn when the walker yields it and kept with it in walked.             *)
(***************************************************************************)
NamePool ==
  << <<"a", ".", "t", "s">>, <<"b", ".", "j", "s">>, <<"c", ".", "t", "s", "x">>,
     <<"d", ".", "m", "j", "s">>, <<"e", ".", "j", "s", "x">> >>

NameOf(idx) == NamePool[((idx - 1) % Len(NamePool)) + 1]

NoEngine == [ok |-> FALSE, e |-> "not run"]

Entry(kind, root, path, read, path_utf8, engine, renders) ==
  [kind |-> kind, root |-> root, path |-> path, read |-> read,
   path_utf8 |-> path_utf8, engine |-> engine, renders |-> renders]

\* What the walker may yield as entry number idx, from root number r: an
\* error, a directory, or a file together with what reading, converting,
\* linting and formatting it will do.
EntriesOf(idx, r, root, rules) ==
  LET p == Push(root, NameOf(idx))
  IN  {Entry("walkerr", r, p, "ok", TRUE, NoEngine, TRUE),
       Entry("dir", r, root, "ok", TRUE, NoEngine, TRUE),
       Entry("file", r, p, "unreadable", TRUE, NoEngine, TRUE),
       Entry("file", r, p, "notutf8", TRUE, NoEngine, TRUE),
       Entry("file", r, p, "ok", FALSE, NoEngine, TRUE)}
        \cup {Entry("file", r, p, "ok", TRUE, o, TRUE) : o \in EngineOutcomes(rules)}
        \cup {Entry("file", r, p, "ok", TRUE, o, FALSE) :
                o \in {x \in EngineOutcomes(rules) : x.ok}}

\* The roots are walked in the order they were given.
NextEntries ==
  LET from == IF walked = <<>> THEN 1 ELSE Last(walked).root
  IN  UNION {EntriesOf(Len(walked) + 1, r, walker.roots[r], walker.rules) :
               r \in from..Len(walker.roots)}

\* filter_map(|v| v.ok()): an entry that is an error is dropped.
entry_ok(e) == e.kind # "walkerr"

\* The loop body without the is_file test.
is_file_unchecked(e) == TRUE

\* p.is_file()
is_file(e) == e.kind = "file"

Yield ==
  /\ pc = "walk"
  /\ Len(walked) < call.env.entries
  /\ \E e \in NextEntries :
       /\ walked' = Append(walked, e)
       /\ pc' = IF entry_ok(e) /\ is_file(e) THEN "read" ELSE "walk"
  /\ UNCHANGED <<call, result, walker, lints, pending, report, has_error>>

Fail(e) ==
  /\ result' = e
  /\ pc' = "done"

\* read_to_string whose failure skips the file.
read_failed_skips(e) ==
  IF e.read = "ok" THEN pc' = "lint" /\ UNCHANGED result
  ELSE pc' = "walk" /\ UNCHANGED result

\* fs::read_to_string(&p)
read_to_string(e) ==
  IF e.read = "ok" THEN pc' = "lint" /\ UNCHANGED result
  ELSE Fail(Error("GenericFailure", "Read file {:?} failed: {}", Some(e.read),
                  Some(e.path)))

ReadFile ==
  /\ pc = "read"
  /\ read_to_string(Last(walked))
  /\ UNCHANGED <<call, walker, walked, lints, pending, report, has_error>>

\* has_error assigned, not accumulated.
has_error_last_file(flag, diags) == diags # <<>>

\* has_error = has_error || !file_diagnostics.is_empty()
fold_has_error(flag, diags) == flag \/ diags # <<>>

LintFile ==
  /\ pc = "lint"
  /\ LET e == Last(walked)
     IN  IF ~e.path_utf8
         THEN Fail(ConvertError(e.path)) /\ UNCHANGED <<lints, has_error>>
         ELSE IF ~e.engine.ok
         THEN /\ Fail(Error("GenericFailure", "Lint failed: {}, at: {:?}",
                            Some(e.engine.e), Some(e.path)))
              /\ UNCHANGED <<lints, has_error>>
         ELSE /\ lints' = Append(lints, [idx |-> Len(walked), path |-> e.path,
                                         media |-> get_media_type(e.path),
                                         diags |-> e.engine.diags])
              /\ has_error' = fold_has_error(has_error, e.engine.diags)
              /\ pc' = "display"
              /\ UNCHANGED result
  /\ UNCHANGED <<call, walker, walked, pending, report>>

Display ==
  /\ pc = "display"
  /\ LET e == Last(walked)
         d == display_diagnostics(Last(lints).diags, e.path, e.renders)
     IN  IF ~d.ok
         THEN /\ Fail(Error("GenericFailure", "{}", Some(d.e), None))
              /\ UNCHANGED pending
         ELSE /\ pending' = d.lines
              /\ pc' = IF d.lines = <<>> THEN "walk" ELSE "emit"
              /\ UNCHANGED result
  /\ UNCHANGED <<call, walker, walked, lints, report, has_error>>

\* Lines put before, not after, what was printed.
eprintln_reversed(out, line) == <<line>> \o out

\* eprintln!("{issue}")
eprintln(out, line) == Append(out, line)

Emit ==
  /\ pc = "emit"
  /\ report' = eprintln(report, Head(pending))
  /\ pending' = Tail(pending)
  /\ pc' = IF Tail(pending) = <<>> THEN "walk" ELSE "emit"
  /\ UNCHANGED <<call, result, walker, walked, lints, has_error>>

\* Ok(has_error), once the walker is exhausted.
Finish ==
  /\ pc = "walk"
  /\ Len(walked) = call.env.entries
  /\ result' = Ok(has_error)
  /\ pc' = "done"
  /\ UNCHANGED <<call, walker, walked, lints, pending, report, has_error>>

Next == Configure \/ Yield \/ ReadFile \/ LintFile \/ Display \/ Emit \/ Finish

(***************************************************************************)
(* The calls of denolint that are checked.                                 *)
(***************************************************************************)
Dirname == <<"/", "n">>

ConfigPath == <<"c">>

DenolintFs == BaseFs \cup {<<"/", "w", "/", "a">>, <<"/", "w", "/", "a", "/", "a">>}

ScanPool == << <<"s">>, <<"/", "t">>, <<"u">>, <<"v">> >>

IncludePool == << <<"a">>, <<"/", "i">>, <<"g">>, <<"a", "/", "a">> >>

ExcludePool == {<<"x">>, <<"[", "x">>}

Prefixes(pool) == {SubSeq(pool, 1, k) : k \in 0..Min(MaxDirs, Len(pool))}

Configs ==
  {[state |-> "absent"], [state |-> "invalid"]}
    \cup {[state |-> "loaded", rules |-> {"no-empty", "no-var", "camelcase"},
           include |-> i, exclude |-> x] :
            i \in Prefixes(IncludePool), x \in SeqsUpTo(ExcludePool, MaxDirs)}

DenolintEnv(cwd, cwd_utf8, config, d, e, n) ==
  [cwd |-> cwd, cwd_utf8 |-> cwd_utf8, config |-> config, denolintignore |-> d,
   eslintignore |-> e, fs |-> DenolintFs, windows |-> FALSE, utf8 |-> TRUE,
   entries |-> n]

DenolintCall(scan, env) ==
  [fn |-> "denolint", dirname |-> Dirname, config_path |-> ConfigPath,
   scan_dirs |-> scan, env |-> env]

\* Trees of the configuration-phase specification hold this many entries
\* at most.
MaxCfgEntries == 1

\* Every configuration, over small trees.
Init ==
  /\ pc = "call"
  /\ call \in {DenolintCall(scan, DenolintEnv(cwd, u, cfg, d, e, n)) :
                 scan \in {None} \cup {Some(x) : x \in Prefixes(ScanPool)},
                 cwd \in {None, Some(Cwd)}, u \in BOOLEAN, cfg \in Configs,
                 d \in BOOLEAN, e \in BOOLEAN, n \in 0..MaxCfgEntries}
  /\ result = Idle
  /\ DenolintIdle

Spec == Init /\ [][Next]_vars

WalkConfigs ==
  {[state |-> "absent"],
   [state |-> "loaded", rules |-> {"no-empty", "no-var", "camelcase"},
    include |-> SubSeq(IncludePool, 1, 2), exclude |-> <<>>]}

\* Every tree up to MaxEntries entries, under a few configurations.
InitWalk ==
  /\ pc = "call"
  /\ call \in {DenolintCall(scan, DenolintEnv(Some(Cwd), TRUE, cfg, FALSE, FALSE, n)) :
                 scan \in {None, Some(SubSeq(ScanPool, 1, 1))},
                 cfg \in WalkConfigs, n \in 0..MaxEntries}
  /\ result = Idle
  /\ DenolintIdle

SpecWalk == InitWalk /\ [][Next]_vars

(***************************************************************************)
(* Properties of denolint.                                                 *)
(***************************************************************************)
Configured == pc \in {"walk", "read", "lint", "display", "emit"} \/ walked # <<>>
               \/ (pc = "done" /\ result.kind = "ok")

Returned == pc = "done" /\ call.fn = "denolint" /\ result.kind = "ok"

\* The entries yielded so far that are regular files.
FileEntries == {i \in 1..Len(walked) : walked[i].kind = "file"}

\* The yielded files for which the engine reports at least one diagnostic.
FilesWithDiagnostics ==
  {i \in FileEntries : walked[i].engine.ok /\ walked[i].engine.diags # <<>>}

Linted == {lints[k].idx : k \in 1..Len(lints)}

\* C1: when denolint returns a verdict, it is true exactly when some regular
\* file the walk yielded produced a diagnostic, and every regular file the
\* walk yielded was linted, also those after the verdict became true.
C1_VerdictIffAnyDiagnostics ==
  Returned =>
    /\ result.value = (FilesWithDiagnostics # {})
    /\ Linted = FileEntries

C1_Witness ==
  /\ Returned
  /\ result.value = TRUE
  /\ Len(lints) >= 3
  /\ lints[1].diags # <<>>
  /\ lints[2].diags = <<>>
  /\ lints[3].diags = <<>>

\* The roots the claim C2 describes.
PrecedenceRoots(c) ==
  LET dirs == unwrap_or(c.scan_dirs, <<>>)
      inc == IF c.env.config.state = "loaded" THEN c.env.config.include ELSE <<>>
      cwd == c.env.cwd[1]
  IN  IF dirs # <<>> THEN dirs
      ELSE IF inc # <<>>
           THEN [i \in 1..Len(inc) |-> make_absolute(inc[i], cwd, c.env)]
           ELSE <<cwd>>

\* C2: the walk roots are the scan directories if there are any, else the
\* include paths of the config (resolved) if there are any, else the working
\* directory; only that source's paths are walked.
C2_RootPrecedence ==
  (call.fn = "denolint" /\ Configured) =>
    /\ walker.roots = PrecedenceRoots(call)
    /\ \A i \in 1..Len(walked) :
         walker.roots[walked[i].root] \in Range(PrecedenceRoots(call))

\* What the code does hold to: the root is scan_dirs[0] or else the working
\* directory, and include entries after the first are always added.
C2_RootsAsBuilt ==
  (call.fn = "denolint" /\ Configured) =>
    LET dirs == unwrap_or(call.scan_dirs, <<>>)
        inc == IF call.env.config.state = "loaded" THEN call.env.config.include
               ELSE <<>>
    IN  /\ walker.roots[1] = IF dirs = <<>> THEN call.env.cwd[1] ELSE dirs[1]
        /\ Len(walker.roots) = 1 + (IF inc = <<>> THEN 0 ELSE Len(inc) - 1)
                                 + (IF dirs = <<>> THEN 0 ELSE Len(dirs) - 1)

\* C3: the ignore file given to the walker is .denolintignore of the working
\* directory if it opens, else .eslintignore of the working directory if it
\* opens, else the caller's fallback path, which is used only when neither
\* opens.
C3_IgnoreFilePriority ==
  (call.fn = "denolint" /\ Configured) =>
    LET cwd == call.env.cwd[1]
        d == call.env.denolintignore
        e == call.env.eslintignore
    IN  /\ d => walker.custom_ignore = cwd \o <<"/">> \o DenolintIgnoreName
        /\ (~d /\ e) => walker.custom_ignore = cwd \o <<"/">> \o EslintIgnoreName
        /\ (walker.custom_ignore = call.dirname) <=> (~d /\ ~e)

C3_Witness ==
  /\ call.fn = "denolint"
  /\ Configured
  /\ call.env.denolintignore
  /\ call.env.eslintignore
  /\ walker.custom_ignore = Cwd \o <<"/">> \o DenolintIgnoreName

\* The config was loaded and one of its exclude entries is refused as an
\* override glob.
LoadedMalformed ==
  /\ call.fn = "denolint"
  /\ call.env.cwd # None
  /\ call.env.config.state = "loaded"
  /\ \E i \in 1..Len(call.env.config.exclude) :
       ~override_add(<<"!">> \o call.env.config.exclude[i])

ConfigPhaseOnly ==
  /\ pc \in {"call", "done"}
  /\ walked = <<>>
  /\ lints = <<>>
  /\ report = <<>>

\* C4 as claimed: with a malformed exclude entry denolint returns an error
\* to the caller, in the configuration phase: nothing is read, linted or
\* reported and no verdict is returned.
C4_MalformedExcludeReturnsError ==
  LoadedMalformed =>
    /\ ConfigPhaseOnly
    /\ pc = "done" => result.kind = "err"

\* C4 as amended: with a malformed exclude entry denolint panics with a
\* message naming the first such entry (or has already returned the error of
\* the ignore-file path conversion); it does so in the configuration phase:
\* nothing is read, linted or reported and no verdict is returned.
C4_MalformedExcludePanics ==
  LoadedMalformed =>
    /\ ConfigPhaseOnly
    /\ pc = "done" =>
         IF (call.env.denolintignore \/ call.env.eslintignore) /\ ~call.env.cwd_utf8
         THEN result.kind = "err"
                /\ result.text = "Convert path to string failed: {:?}"
         ELSE result.kind = "panic"
                /\ result.text = "Adding excluded file {:?} failed"
                /\ \E i \in 1..Len(call.env.config.exclude) :
                     /\ result.path = Some(call.env.config.exclude[i])
                     /\ ~override_add(<<"!">> \o call.env.config.exclude[i])
                     /\ \A j \in 1..(i - 1) :
                          override_add(<<"!">> \o call.env.config.exclude[j])

C4_Witness ==
  /\ LoadedMalformed
  /\ pc = "done"
  /\ result.kind = "panic"
  /\ Len(call.env.config.exclude) = 2
  /\ override_add(<<"!">> \o call.env.config.exclude[1])
  /\ result.path = Some(call.env.config.exclude[2])

RECURSIVE Flatten(_)
Flatten(ss) == IF ss = <<>> THEN <<>> ELSE Head(ss) \o Flatten(Tail(ss))

\* The report lines of the files linted so far, file by file.
LinesOf(ls) ==
  Flatten([k \in 1..Len(ls) |->
             display_diagnostics(ls[k].diags, ls[k].path, TRUE).lines])

\* C7: the report is, file by file in the order the files were linted, the
\* formatted lines of each file in the order of its diagnostics; all lines
\* of a file are printed before the next file is read; the files in the
\* report are exactly the files that produced diagnostics.
C7_ReportGroupedByFile ==
  (call.fn = "denolint") =>
    /\ IsPrefix(report, LinesOf(lints))
    /\ pc = "emit" => report \o pending = LinesOf(lints)
    /\ (pc \in {"walk", "read", "lint"} \/ Returned) => report = LinesOf(lints)
    /\ Returned =>
         {report[k].file : k \in 1..Len(report)}
           = {walked[i].path : i \in FilesWithDiagnostics}

C7_Witness ==
  /\ Returned
  /\ Len(lints) = 3
  /\ Len(lints[1].diags) = 2
  /\ lints[2].diags = <<>>
  /\ Len(lints[3].diags) = 1
  /\ Len(report) = 3

\* Reading, converting, linting or formatting this entry fails.
FileFails(e) ==
  /\ e.kind = "file"
  /\ e.read # "ok" \/ ~e.path_utf8 \/ ~e.engine.ok \/ ~e.renders

\* C9: the first file that fails ends the run with an error; no entry is
\* yielded, read or linted after it, and the lines printed for the files
\* before it stay printed.
C9_FirstFailureAborts ==
  (call.fn = "denolint") =>
    /\ \A i \in 1..Len(walked) : FileFails(walked[i]) => i = Len(walked)
    /\ (pc = "done" /\ walked # <<>> /\ FileFails(Last(walked))) =>
         /\ result.kind = "err"
         /\ Linted \subseteq FileEntries
         /\ report = LinesOf(SelectSeq(lints, LAMBDA l : l.idx < Len(walked)))
    /\ (pc = "done" /\ walked # <<>> /\ ~FileFails(Last(walked))) =>
         result.kind = "ok"

C9_Witness ==
  /\ pc = "done"
  /\ call.fn = "denolint"
  /\ result.kind = "err"
  /\ Len(walked) = 2
  /\ Len(walked) < call.env.entries
  /\ walked[2].read = "notutf8"
  /\ Len(report) = 2

\* C10: entries that are walk errors or not regular files are skipped: never
\* linted, never in the report, never the cause of an error, without effect
\* on the verdict, and the entries after them are still processed.
C10_SkippedEntries ==
  (call.fn = "denolint") =>
    /\ \A i \in 1..Len(walked) :
         walked[i].kind # "file" =>
           /\ i \notin Linted
           /\ \A k \in 1..Len(report) : report[k].file # walked[i].path
           /\ (i = Len(walked) /\ pc = "done") => result.kind = "ok"
           /\ i = Len(walked) => pc \in {"walk", "done"}
    /\ Returned =>
         /\ Len(walked) = call.env.entries
         /\ Linted = FileEntries
         /\ result.value = (\E k \in 1..Len(lints) : lints[k].diags # <<>>)

C10_Witness ==
  /\ Returned
  /\ Len(walked) = 3
  /\ walked[1].kind = "walkerr"
  /\ walked[2].kind = "dir"
  /\ walked[3].kind = "file"
  /\ Linted = {3}
  /\ result.value = TRUE

====
